---- MODULE Spec2Model ----
(***************************************************************************)
(* Model of the financial projection engine of munus-moneyapp              *)
(* (src/lib/income-calculator.ts).                                         *)
(*                                                                         *)
(* The engine computes on JavaScript numbers, i.e. IEEE-754 binary64       *)
(* values.  The first part of this module is that arithmetic: a number is  *)
(* a record [s, m, e] standing for s * m * 2^e, where s is 1 or -1, m is a  *)
(* 53-bit significand held as four limbs of 14 bits (least significant      *)
(* first) and e is the exponent.  Every operation computes the exact        *)
(* result and rounds it to nearest, ties to even, as the hardware does.     *)
(* Subnormals, infinities and NaN are outside the value ranges the model    *)
(* draws its inputs from and are not represented; -0 is identified with 0.  *)
(***************************************************************************)
EXTENDS Integers, Sequences, FiniteSets, TLC

----------------------------------------------------------------------------
(* Limb arithmetic on naturals written base 2^14, least significant first. *)

LimbBits == 14
Base == 2^14
MantBits == 53

Limb(x, i) == IF i >= 1 /\ i <= Len(x) THEN x[i] ELSE 0

RECURSIVE BitLen(_)
BitLen(n) == IF n = 0 THEN 0 ELSE 1 + BitLen(n \div 2)

RECURSIVE TopLimb(_, _)
TopLimb(x, i) == IF i = 0 THEN 0 ELSE IF x[i] # 0 THEN i ELSE TopLimb(x, i - 1)

\* limbs j..n of floor(x / (p * Base^ls)), where p = 2^bs divides Base and q = Base / p
RECURSIVE ShiftRightFrom(_, _, _, _, _, _)
ShiftRightFrom(x, ls, p, q, j, n) ==
    IF j > n THEN <<>>
    ELSE <<(Limb(x, j + ls) \div p) + (Limb(x, j + ls + 1) % p) * q>>
         \o ShiftRightFrom(x, ls, p, q, j + 1, n)

\* floor(x / 2^sh), as n limbs
ShiftRightBig(x, sh, n) ==
    LET bs == sh % LimbBits
    IN  ShiftRightFrom(x, sh \div LimbBits, 2^bs, 2^(LimbBits - bs), 1, n)

\* limbs j..n of x * p * Base^ls, where p = 2^bs divides Base and q = Base / p
RECURSIVE ShiftLeftFrom(_, _, _, _, _, _)
ShiftLeftFrom(x, ls, p, q, j, n) ==
    IF j > n THEN <<>>
    ELSE <<(Limb(x, j - ls) % q) * p + (Limb(x, j - ls - 1) \div q)>>
         \o ShiftLeftFrom(x, ls, p, q, j + 1, n)

\* x * 2^sh, as n limbs
ShiftLeftBig(x, sh, n) ==
    LET bs == sh % LimbBits
    IN  ShiftLeftFrom(x, sh \div LimbBits, 2^bs, 2^(LimbBits - bs), 1, n)

\* the column sums sx * x[j] + sy * y[j] for limbs j..n
RECURSIVE Columns(_, _, _, _, _, _)
Columns(x, sx, y, sy, j, n) ==
    IF j > n THEN <<>>
    ELSE <<sx * Limb(x, j) + sy * Limb(y, j)>> \o Columns(x, sx, y, sy, j + 1, n)

\* propagate carries (or borrows) through column sums c, from limb i with carry k
RECURSIVE CarryFrom(_, _, _)
CarryFrom(c, i, k) ==
    IF i > Len(c) THEN <<>>
    ELSE LET t == c[i] + k IN <<t % Base>> \o CarryFrom(c, i + 1, t \div Base)

\* -1, 0 or 1 as x < y, x = y, x > y, comparing limbs i, i-1, ..., 1
RECURSIVE CmpBig(_, _, _)
CmpBig(x, y, i) ==
    IF i = 0 THEN 0
    ELSE IF Limb(x, i) > Limb(y, i) THEN 1
    ELSE IF Limb(x, i) < Limb(y, i) THEN -1
    ELSE CmpBig(x, y, i - 1)

\* quotient limbs 1..i and remainder of (r * Base^i + x[1..i]) divided by n, n < Base
RECURSIVE ShortDiv(_, _, _, _)
ShortDiv(x, n, i, r) ==
    IF i = 0 THEN << <<>>, r >>
    ELSE LET cur  == r * Base + x[i]
             rest == ShortDiv(x, n, i - 1, cur % n)
         IN  << Append(rest[1], cur \div n), rest[2] >>

----------------------------------------------------------------------------
(* binary64 values and operations.                                          *)

Zero == [s |-> 1, m |-> <<0, 0, 0, 0>>, e |-> 0]

IsZero(a) == a.m = <<0, 0, 0, 0>>

\* the binary64 nearest to s * x * 2^e (+ a non-zero tail below x when sticky0),
\* ties to even
RoundBig(s, x, e, sticky0) ==
    LET t == TopLimb(x, Len(x))
    IN  IF t = 0 THEN Zero
        ELSE LET L == LimbBits * (t - 1) + BitLen(x[t])
             IN  IF L <= MantBits
                 THEN [s |-> s, m |-> ShiftLeftBig(x, MantBits - L, 4), e |-> e - (MantBits - L)]
                 ELSE LET sh     == L - MantBits
                          q      == ShiftRightBig(x, sh, 4)
                          gi     == ((sh - 1) \div LimbBits) + 1
                          gb     == (sh - 1) % LimbBits
                          guard  == (x[gi] \div 2^gb) % 2 = 1
                          sticky == sticky0 \/ x[gi] % 2^gb # 0 \/ \E j \in 1..(gi - 1) : x[j] # 0
                          up     == guard /\ (sticky \/ q[1] % 2 = 1)
                          r      == CarryFrom(q, 1, 1)
                      IN  IF ~up THEN [s |-> s, m |-> q, e |-> e + sh]
                          ELSE IF r[4] >= 2^11
                               THEN [s |-> s, m |-> <<0, 0, 0, 2^10>>, e |-> e + sh + 1]
                               ELSE [s |-> s, m |-> r, e |-> e + sh]

\* the number n, for an integer |n| < 2^31
FromInt(n) ==
    LET a == IF n < 0 THEN -n ELSE n
    IN  RoundBig(IF n < 0 THEN -1 ELSE 1,
                 <<a % Base, (a \div Base) % Base, a \div (Base * Base)>>, 0, FALSE)

FNeg(a) == IF IsZero(a) THEN a ELSE [a EXCEPT !.s = -a.s]

\* a + b
FAdd(a, b) ==
    IF IsZero(a) THEN b
    ELSE IF IsZero(b) THEN a
    ELSE LET hi == IF a.e >= b.e THEN a ELSE b
             lo == IF a.e >= b.e THEN b ELSE a
             d  == hi.e - lo.e
         IN  IF d > MantBits + 2 THEN hi
             ELSE LET n      == ((MantBits + d) \div LimbBits) + 1
                      X      == ShiftLeftBig(hi.m, d, n)
                      Y      == lo.m
                  IN  IF hi.s = lo.s
                      THEN RoundBig(hi.s, CarryFrom(Columns(X, 1, Y, 1, 1, n), 1, 0), lo.e, FALSE)
                      ELSE LET c == CmpBig(X, Y, n)
                           IN  IF c = 0 THEN Zero
                               ELSE IF c > 0
                               THEN RoundBig(hi.s, CarryFrom(Columns(X, 1, Y, -1, 1, n), 1, 0),
                                             lo.e, FALSE)
                               ELSE RoundBig(lo.s, CarryFrom(Columns(X, -1, Y, 1, 1, n), 1, 0),
                                             lo.e, FALSE)

\* a - b
FSub(a, b) == FAdd(a, FNeg(b))

\* a * b
FMul(a, b) ==
    IF IsZero(a) \/ IsZero(b) THEN Zero
    ELSE LET x == a.m
             y == b.m
             cols == << x[1] * y[1],
                        x[1] * y[2] + x[2] * y[1],
                        x[1] * y[3] + x[2] * y[2] + x[3] * y[1],
                        x[1] * y[4] + x[2] * y[3] + x[3] * y[2] + x[4] * y[1],
                        x[2] * y[4] + x[3] * y[3] + x[4] * y[2],
                        x[3] * y[4] + x[4] * y[3],
                        x[4] * y[4],
                        0 >>
         IN  RoundBig(a.s * b.s, CarryFrom(cols, 1, 0), a.e + b.e, FALSE)

\* a / n for a divisor that is the integer n, 0 < n < 2^14
FDivInt(a, n) ==
    IF IsZero(a) THEN Zero
    ELSE LET qr == ShortDiv(<<0, 0>> \o a.m, n, 6, 0)
         IN  RoundBig(a.s, qr[1], a.e - 2 * LimbBits, qr[2] # 0)

\* a < b
FLess(a, b) == LET d == FSub(a, b) IN ~IsZero(d) /\ d.s = -1

\* Math.max(0, a)
MathMax0(a) == IF a.s = -1 THEN Zero ELSE a

\* Math.round(a): the nearest integer, ties toward +infinity (|a| < 2^31)
MathRound(a) ==
    IF IsZero(a) THEN 0
    ELSE LET sh == -a.e
         IN  IF sh > MantBits THEN 0
             ELSE LET q      == ShiftRightBig(a.m, sh, 3)
                      i      == q[1] + q[2] * Base + q[3] * Base * Base
                      gi     == ((sh - 1) \div LimbBits) + 1
                      gb     == (sh - 1) % LimbBits
                      guard  == (a.m[gi] \div 2^gb) % 2 = 1
                      sticky == a.m[gi] % 2^gb # 0 \/ \E j \in 1..(gi - 1) : a.m[j] # 0
                  IN  IF a.s = 1 THEN i + (IF guard THEN 1 ELSE 0)
                      ELSE -(i + (IF guard /\ sticky THEN 1 ELSE 0))

\* the decimal literal p/q (q a power of ten below 2^14): the binary64 nearest to it
Lit(p, q) == IF q = 1 THEN FromInt(p) ELSE FDivInt(FromInt(p), q)

----------------------------------------------------------------------------
(* The investment projection engine.                                        *)

\* params.fees or params.taxRate left out; no result yet; the exception a property read of undefined raises
Undefined == [undefined |-> TRUE]
Null == [null |-> TRUE]
TypeError == [thrown |-> "TypeError"]

One == FromInt(1)

\* the inner loop of calculateInvestment: months month..12 of one year
\* (growth is the loop-invariant factor 1 + monthlyReturn)
RECURSIVE CompoundMonths(_, _, _, _)
CompoundMonths(yearEndTotal, monthlyAmount, growth, month) ==
    IF month > 12 THEN yearEndTotal
    ELSE CompoundMonths(FMul(FAdd(yearEndTotal, monthlyAmount), growth),
                        monthlyAmount, growth, month + 1)

\* YearlyData with the cumulative earnings reported in the total field
YearlyData_TotalIsEarnings(year, currentPrincipal, currentTotal, previousTotal, yearlyPrincipal) ==
    LET yearlyEarnings == FSub(FSub(currentTotal, previousTotal), yearlyPrincipal)
        totalEarnings  == FSub(currentTotal, currentPrincipal)
    IN  [year           |-> year,
         principal      |-> MathRound(currentPrincipal),
         earnings       |-> MathRound(totalEarnings),
         total          |-> MathRound(totalEarnings),
         yearlyEarnings |-> MathRound(yearlyEarnings)]

\* the entry calculateInvestment pushes at the end of a year
YearlyData(year, currentPrincipal, currentTotal, previousTotal, yearlyPrincipal) ==
    LET yearlyEarnings == FSub(FSub(currentTotal, previousTotal), yearlyPrincipal)
        totalEarnings  == FSub(currentTotal, currentPrincipal)
    IN  [year           |-> year,
         principal      |-> MathRound(currentPrincipal),
         earnings       |-> MathRound(totalEarnings),
         total          |-> MathRound(currentTotal),
         yearlyEarnings |-> MathRound(yearlyEarnings)]

\* YearLoop with the loop test year < years (the last year is dropped)
RECURSIVE YearLoop_OffByOne(_, _, _, _, _, _, _)
YearLoop_OffByOne(year, years, monthlyAmount, growth, currentPrincipal, currentTotal, yearlyData) ==
    IF year >= years THEN yearlyData
    ELSE LET yearlyPrincipal == FMul(monthlyAmount, FromInt(12))
             principal       == FAdd(currentPrincipal, yearlyPrincipal)
             yearEndTotal    == CompoundMonths(currentTotal, monthlyAmount, growth, 1)
             entry           == YearlyData(year, principal, yearEndTotal, currentTotal,
                                           yearlyPrincipal)
         IN  YearLoop_OffByOne(entry.year + 1, years, monthlyAmount, growth, principal,
                      yearEndTotal, Append(yearlyData, entry))

\* YearLoop with every year compounding from an empty balance instead of currentTotal
RECURSIVE YearLoop_ResetTotal(_, _, _, _, _, _, _)
YearLoop_ResetTotal(year, years, monthlyAmount, growth, currentPrincipal, currentTotal, yearlyData) ==
    IF year > years THEN yearlyData
    ELSE LET yearlyPrincipal == FMul(monthlyAmount, FromInt(12))
             principal       == FAdd(currentPrincipal, yearlyPrincipal)
             yearEndTotal    == CompoundMonths(Zero, monthlyAmount, growth, 1)
             entry           == YearlyData(year, principal, yearEndTotal, currentTotal,
                                           yearlyPrincipal)
         IN  YearLoop_ResetTotal(entry.year + 1, years, monthlyAmount, growth, principal,
                      yearEndTotal, Append(yearlyData, entry))

\* YearLoop with the next year starting from the rounded total that was reported
RECURSIVE YearLoop_CarryRounded(_, _, _, _, _, _, _)
YearLoop_CarryRounded(year, years, monthlyAmount, growth, currentPrincipal, currentTotal, yearlyData) ==
    IF year > years THEN yearlyData
    ELSE LET yearlyPrincipal == FMul(monthlyAmount, FromInt(12))
             principal       == FAdd(currentPrincipal, yearlyPrincipal)
             yearEndTotal    == CompoundMonths(currentTotal, monthlyAmount, growth, 1)
             entry           == YearlyData(year, principal, yearEndTotal, currentTotal,
                                           yearlyPrincipal)
         IN  YearLoop_CarryRounded(entry.year + 1, years, monthlyAmount, growth, principal,
                      FromInt(MathRound(yearEndTotal)), Append(yearlyData, entry))

\* YearLoop with the last year of the horizon compounding from an empty balance
RECURSIVE YearLoop_LastYearReset(_, _, _, _, _, _, _)
YearLoop_LastYearReset(year, years, monthlyAmount, growth, currentPrincipal, currentTotal, yearlyData) ==
    IF year > years THEN yearlyData
    ELSE LET yearlyPrincipal == FMul(monthlyAmount, FromInt(12))
             principal       == FAdd(currentPrincipal, yearlyPrincipal)
             yearEndTotal    == CompoundMonths(IF year = years THEN Zero ELSE currentTotal,
                                               monthlyAmount, growth, 1)
             entry           == YearlyData(year, principal, yearEndTotal, currentTotal,
                                           yearlyPrincipal)
         IN  YearLoop_LastYearReset(entry.year + 1, years, monthlyAmount, growth, principal,
                      yearEndTotal, Append(yearlyData, entry))

\* the outer loop of calculateInvestment: years year..years (the entry of a year
\* is pushed before the loop goes on to the year after it)
RECURSIVE YearLoop(_, _, _, _, _, _, _)
YearLoop(year, years, monthlyAmount, growth, currentPrincipal, currentTotal, yearlyData) ==
    IF year > years THEN yearlyData
    ELSE LET yearlyPrincipal == FMul(monthlyAmount, FromInt(12))
             principal       == FAdd(currentPrincipal, yearlyPrincipal)
             yearEndTotal    == CompoundMonths(currentTotal, monthlyAmount, growth, 1)
             entry           == YearlyData(year, principal, yearEndTotal, currentTotal,
                                           yearlyPrincipal)
         IN  YearLoop(entry.year + 1, years, monthlyAmount, growth, principal,
                      yearEndTotal, Append(yearlyData, entry))

\* the SimulationResult built from yearlyData, or TypeError when the read of
\* finalData.total finds yearlyData empty
SimulationResult(yearlyData) ==
    IF Len(yearlyData) = 0 THEN TypeError
    ELSE LET finalData == yearlyData[Len(yearlyData)]
         IN  [finalAmount    |-> finalData.total,
              totalPrincipal |-> finalData.principal,
              totalEarnings  |-> finalData.earnings,
              yearlyData     |-> yearlyData]

\* calculateInvestment with the fee added to the return instead of subtracted
calculateInvestment_FeesAdded(p) ==
    LET fees            == IF p.fees = Undefined THEN Zero ELSE p.fees
        effectiveReturn == FDivInt(FAdd(p.annualReturn, fees), 100)
        monthlyReturn   == FDivInt(effectiveReturn, 12)
    IN  SimulationResult(YearLoop(1, p.years, p.monthlyAmount, FAdd(One, monthlyReturn),
                                  Zero, Zero, <<>>))

\* calculateInvestment with the operands of the effective return swapped
calculateInvestment_SwappedReturn(p) ==
    LET fees            == IF p.fees = Undefined THEN Zero ELSE p.fees
        effectiveReturn == FDivInt(FSub(fees, p.annualReturn), 100)
        monthlyReturn   == FDivInt(effectiveReturn, 12)
    IN  SimulationResult(YearLoop(1, p.years, p.monthlyAmount, FAdd(One, monthlyReturn),
                                  Zero, Zero, <<>>))

\* calculateInvestment with the tax rate taken off the return
calculateInvestment_TaxDeducted(p) ==
    LET fees            == IF p.fees = Undefined THEN Zero ELSE p.fees
        taxRate         == IF p.taxRate = Undefined THEN Zero ELSE p.taxRate
        effectiveReturn == FDivInt(FSub(FSub(p.annualReturn, fees), taxRate), 100)
        monthlyReturn   == FDivInt(effectiveReturn, 12)
    IN  SimulationResult(YearLoop(1, p.years, p.monthlyAmount, FAdd(One, monthlyReturn),
                                  Zero, Zero, <<>>))

\* calculateInvestment(params)
calculateInvestment(p) ==
    LET fees            == IF p.fees = Undefined THEN Zero ELSE p.fees
        taxRate         == IF p.taxRate = Undefined THEN Zero ELSE p.taxRate
        effectiveReturn == FDivInt(FSub(p.annualReturn, fees), 100)
        monthlyReturn   == FDivInt(effectiveReturn, 12)
    IN  SimulationResult(YearLoop(1, p.years, p.monthlyAmount, FAdd(One, monthlyReturn),
                                  Zero, Zero, <<>>))

\* the preset catalog (the display name and description of an entry are left out)
PRESETS ==
    << [id |-> "nisa_standard",
        params |-> [monthlyAmount |-> 33333, years |-> 20, annualReturn |-> 5]],
       [id |-> "conservative",
        params |-> [monthlyAmount |-> 20000, years |-> 30, annualReturn |-> 3]],
       [id |-> "aggressive",
        params |-> [monthlyAmount |-> 50000, years |-> 15, annualReturn |-> 7]],
       [id |-> "retirement",
        params |-> [monthlyAmount |-> 30000, years |-> 30, annualReturn |-> 5]] >>

\* the params object of preset i as the engine receives it: no fees key, no
\* taxRate key
PresetParams(i) ==
    [monthlyAmount |-> FromInt(PRESETS[i].params.monthlyAmount),
     years         |-> PRESETS[i].params.years,
     annualReturn  |-> FromInt(PRESETS[i].params.annualReturn),
     fees          |-> Undefined,
     taxRate       |-> Undefined]

\* calculateRiskScenarios without the floor of the pessimistic return at 0
calculateRiskScenarios_Unclamped(p) ==
    LET returnVariance == FromInt(2)
    IN  [optimistic  |-> calculateInvestment([p EXCEPT !.annualReturn = FAdd(p.annualReturn, returnVariance)]),
         base        |-> calculateInvestment(p),
         pessimistic |-> calculateInvestment([p EXCEPT !.annualReturn =
                                                 FSub(p.annualReturn, returnVariance)])]

\* calculateRiskScenarios(params)
calculateRiskScenarios(p) ==
    LET returnVariance == FromInt(2)
    IN  [optimistic  |-> calculateInvestment([p EXCEPT !.annualReturn = FAdd(p.annualReturn, returnVariance)]),
         base        |-> calculateInvestment(p),
         pessimistic |-> calculateInvestment([p EXCEPT !.annualReturn =
                                                 MathMax0(FSub(p.annualReturn, returnVariance))])]

----------------------------------------------------------------------------
(* The income / cash-flow engine.  Amounts are numbers; calculateNetIncome  *)
(* returns the integer Math.round yields.                                   *)

\* calculateNetIncome with strict threshold tests (> instead of >=)
calculateNetIncome_StrictThresholds(grossIncome) ==
    LET deductionRate == IF FLess(FromInt(1000), grossIncome) THEN Lit(25, 100)
                         ELSE IF FLess(FromInt(600), grossIncome) THEN Lit(22, 100)
                         ELSE Lit(2, 10)
    IN  MathRound(FMul(grossIncome, FSub(One, deductionRate)))

\* calculateNetIncome(grossIncome)
calculateNetIncome(grossIncome) ==
    LET deductionRate == IF ~FLess(grossIncome, FromInt(1000)) THEN Lit(25, 100)
                         ELSE IF ~FLess(grossIncome, FromInt(600)) THEN Lit(22, 100)
                         ELSE Lit(2, 10)
    IN  MathRound(FMul(grossIncome, FSub(One, deductionRate)))

\* calculateTotalExpense(monthlyExpense, years)
calculateTotalExpense(monthlyExpense, years) ==
    FMul(FMul(monthlyExpense, FromInt(12)), years)

\* calculateSavings without the floor at 0
calculateSavings_NoFloor(grossIncome, bonus, monthlyExpense, years) ==
    LET netIncome      == FromInt(calculateNetIncome(grossIncome))
        totalNetIncome == FMul(FAdd(netIncome, bonus), years)
        totalExpense   == calculateTotalExpense(monthlyExpense, years)
    IN  FSub(totalNetIncome, totalExpense)

\* calculateSavings(grossIncome, bonus, monthlyExpense, years)
calculateSavings(grossIncome, bonus, monthlyExpense, years) ==
    LET netIncome      == FromInt(calculateNetIncome(grossIncome))
        totalNetIncome == FMul(FAdd(netIncome, bonus), years)
        totalExpense   == calculateTotalExpense(monthlyExpense, years)
    IN  MathMax0(FSub(totalNetIncome, totalExpense))

\* calculateSavingsRate without the short-circuit on annualNetIncome === 0:
\* the division by 0 then yields NaN (0 / 0) or an infinity
calculateSavingsRate_NoZeroCheck(grossIncome, bonus, monthlyExpense) ==
    LET netIncome       == FromInt(calculateNetIncome(grossIncome))
        annualNetIncome == FAdd(netIncome, bonus)
        annualExpense   == FMul(monthlyExpense, FromInt(12))
        annualSavings   == FSub(annualNetIncome, annualExpense)
    IN  IF IsZero(annualNetIncome)
        THEN IF IsZero(annualSavings) THEN [nan |-> TRUE]
             ELSE IF annualSavings.s = -1 THEN Zero ELSE [infinity |-> TRUE]
        ELSE MathMax0(FromInt(MathRound(
                 FMul(FDivInt(annualSavings, MathRound(annualNetIncome)), FromInt(100)))))

\* calculateSavingsRate(grossIncome, bonus, monthlyExpense); annualNetIncome is a
\* positive whole number below 2^14 where the division is reached
calculateSavingsRate(grossIncome, bonus, monthlyExpense) ==
    LET netIncome       == FromInt(calculateNetIncome(grossIncome))
        annualNetIncome == FAdd(netIncome, bonus)
        annualExpense   == FMul(monthlyExpense, FromInt(12))
        annualSavings   == FSub(annualNetIncome, annualExpense)
    IN  IF IsZero(annualNetIncome) THEN Zero
        ELSE MathMax0(FromInt(MathRound(
                 FMul(FDivInt(annualSavings, MathRound(annualNetIncome)), FromInt(100)))))

\* the loop of generateYearlyIncomeData with the year's savings stored instead
\* of the cumulative savings
RECURSIVE IncomeYearLoop_NotCumulative(_, _, _, _, _, _, _, _)
IncomeYearLoop_NotCumulative(i, years, gross, annualNetIncome, annualExpense, annualSavings, cumulativeSavings, data) ==
    IF i > years THEN data
    ELSE IncomeYearLoop_NotCumulative(i + 1, years, gross, annualNetIncome, annualExpense,
                 annualSavings, annualSavings,
                 Append(data, [year        |-> i,
                               grossIncome |-> gross,
                               netIncome   |-> annualNetIncome,
                               expense     |-> annualExpense,
                               savings     |-> annualSavings]))

\* the loop of generateYearlyIncomeData: years i..years (gross is grossIncome + bonus)
RECURSIVE IncomeYearLoop(_, _, _, _, _, _, _, _)
IncomeYearLoop(i, years, gross, annualNetIncome, annualExpense, annualSavings, cumulativeSavings, data) ==
    IF i > years THEN data
    ELSE LET cumulative == FAdd(cumulativeSavings, annualSavings)
         IN  IncomeYearLoop(i + 1, years, gross, annualNetIncome, annualExpense,
                            annualSavings, cumulative,
                            Append(data, [year        |-> i,
                                          grossIncome |-> gross,
                                          netIncome   |-> annualNetIncome,
                                          expense     |-> annualExpense,
                                          savings     |-> cumulative]))

\* generateYearlyIncomeData(grossIncome, bonus, monthlyExpense, years)
generateYearlyIncomeData(grossIncome, bonus, monthlyExpense, years) ==
    LET netIncome       == FromInt(calculateNetIncome(grossIncome))
        annualNetIncome == FAdd(netIncome, bonus)
        annualExpense   == FMul(monthlyExpense, FromInt(12))
        annualSavings   == MathMax0(FSub(annualNetIncome, annualExpense))
    IN  IncomeYearLoop(1, years, FAdd(grossIncome, bonus), annualNetIncome, annualExpense,
                       annualSavings, Zero, <<>>)

----------------------------------------------------------------------------
(* The formatters.  A string is the sequence of its characters; the two yen *)
(* signs are written by their code points.                                  *)

Digits == <<"0", "1", "2", "3", "4", "5", "6", "7", "8", "9">>

\* the yen sign of the ja-JP currency format: the fullwidth one
FullwidthYen == "U+FFE5"

\* the decimal digits of the natural number n, without leading zeros
RECURSIVE DecimalDigits(_)
DecimalDigits(n) ==
    IF n < 10 THEN <<Digits[n + 1]>>
    ELSE Append(DecimalDigits(n \div 10), Digits[(n % 10) + 1])

\* the digits of n in groups of three separated by commas
RECURSIVE Grouped(_)
Grouped(n) ==
    IF n < 1000 THEN DecimalDigits(n)
    ELSE Grouped(n \div 1000)
         \o <<",", Digits[((n \div 100) % 10) + 1], Digits[((n \div 10) % 10) + 1],
                   Digits[(n % 10) + 1]>>

\* the integer |a| * k rounds to, computed on the exact product (k < 2^14,
\* |a| * k < 2^31): the nearest one, a tie going to the larger, when nearest;
\* the integer part otherwise
ScaledInt(a, k, nearest) ==
    IF IsZero(a) THEN 0
    ELSE LET x     == CarryFrom(Columns(a.m, k, <<>>, 0, 1, 5), 1, 0)
             sh    == -a.e
             q     == ShiftRightBig(x, sh, 3)
             i     == q[1] + q[2] * Base + q[3] * Base * Base
             gi    == ((sh - 1) \div LimbBits) + 1
             gb    == (sh - 1) % LimbBits
             guard == (Limb(x, gi) \div 2^gb) % 2 = 1
         IN  i + (IF nearest /\ guard THEN 1 ELSE 0)

\* value.toFixed(1): n / 10 with n the integer nearest to |value| * 10, the
\* larger n on a tie
toFixed1(value) ==
    LET n == ScaledInt(value, 10, TRUE)
    IN  (IF value.s = -1 THEN <<"-">> ELSE <<>>)
        \o DecimalDigits(n \div 10) \o <<".", Digits[(n % 10) + 1]>>

\* formatPercent with the digits after the first decimal cut off, not rounded
formatPercent_Truncated(value) ==
    LET n == ScaledInt(value, 10, FALSE)
    IN  (IF value.s = -1 THEN <<"-">> ELSE <<>>)
        \o DecimalDigits(n \div 10) \o <<".", Digits[(n % 10) + 1], "%">>

\* formatPercent(value)
formatPercent(value) == Append(toFixed1(value), "%")

\* formatCurrency without the grouping of the digits
formatCurrency_Ungrouped(amount) ==
    (IF amount.s = -1 THEN <<"-">> ELSE <<>>)
    \o <<FullwidthYen>> \o DecimalDigits(ScaledInt(amount, 1, TRUE))

\* formatCurrency(amount): Intl.NumberFormat("ja-JP", currency JPY, no fraction
\* digits) rounds to the nearest integer, a tie away from zero
formatCurrency(amount) ==
    (IF amount.s = -1 THEN <<"-">> ELSE <<>>)
    \o <<FullwidthYen>> \o Grouped(ScaledInt(amount, 1, TRUE))

----------------------------------------------------------------------------
(* A caller of the engine: it holds a parameter record, computes the        *)
(* projection and the risk scenarios for it, and may then change the fee    *)
(* and compute again, keeping the earlier parameters and result.            *)

MaxYears == 3

\* decimal literals <<p, q>> = p/q
MonthlyAmounts == {<<1, 1>>, <<10000, 1>>, <<33333, 1>>, <<4, 100>>, <<25, 1000>>}
AnnualReturns == {<<0, 1>>, <<1, 1>>, <<3, 1>>, <<5, 1>>, <<-1, 1>>}
FeesValues == {<<0, 1>>, <<1, 1>>, <<1, 10>>}

Num(l) == Lit(l[1], l[2])

VARIABLES params, result, scenarios, prev,
          income, returned, netIncome, savings, savingsRate, yearlyIncome,
          amount, percentText, currencyText,
          run, ctl,
          storage, screen, effects, ops, session

investVars == <<params, result, scenarios, prev>>
incomeVars == <<income, returned, netIncome, savings, savingsRate, yearlyIncome>>
formatVars == <<amount, percentText, currencyText>>
stepVars == <<run, ctl>>
screenVars == <<storage, screen, effects, ops, session>>
vars == <<params, result, scenarios, prev,
          income, returned, netIncome, savings, savingsRate, yearlyIncome,
          amount, percentText, currencyText,
          run, ctl,
          storage, screen, effects, ops, session>>

\* the projection engine is not in use
InvestIdle ==
    /\ params = Null
    /\ result = Null
    /\ scenarios = Null
    /\ prev = Null

\* the formatters are not in use
FormatIdle ==
    /\ amount = Null
    /\ percentText = <<>>
    /\ currencyText = <<>>

\* the income screen is not in use
ScreenIdle ==
    /\ storage = Null
    /\ screen = Null
    /\ effects = <<>>
    /\ ops = <<>>
    /\ session = Null

\* no call of calculateInvestment is followed step by step
StepIdle == run = Null /\ ctl = Null

\* the income engine is not in use
IncomeIdle ==
    /\ income = Null
    /\ returned = {}
    /\ netIncome = 0
    /\ savings = Zero
    /\ savingsRate = Zero
    /\ yearlyIncome = <<>>

Init ==
    /\ \E m \in MonthlyAmounts, y \in 1..MaxYears, r \in AnnualReturns,
          f \in {Num(x) : x \in FeesValues} \cup {Undefined} :
          params = [monthlyAmount |-> Num(m), years |-> y, annualReturn |-> Num(r), fees |-> f,
                    taxRate |-> Undefined]
    /\ result = Null
    /\ scenarios = Null
    /\ prev = Null
    /\ IncomeIdle
    /\ FormatIdle
    /\ StepIdle
    /\ ScreenIdle

Calculate ==
    /\ result = Null
    /\ result' = calculateInvestment(params)
    /\ UNCHANGED <<params, scenarios, prev>>
    /\ UNCHANGED incomeVars
    /\ UNCHANGED formatVars
    /\ UNCHANGED stepVars
    /\ UNCHANGED screenVars

Scenarios ==
    /\ result # Null
    /\ scenarios = Null
    /\ scenarios' = calculateRiskScenarios(params)
    /\ UNCHANGED <<params, result, prev>>
    /\ UNCHANGED incomeVars
    /\ UNCHANGED formatVars
    /\ UNCHANGED stepVars
    /\ UNCHANGED screenVars

SetFees ==
    /\ scenarios # Null
    /\ prev = Null
    /\ \E f \in FeesValues :
          /\ Num(f) # params.fees
          /\ params' = [params EXCEPT !.fees = Num(f)]
    /\ prev' = [params |-> params, result |-> result]
    /\ result' = Null
    /\ scenarios' = Null
    /\ UNCHANGED incomeVars
    /\ UNCHANGED formatVars
    /\ UNCHANGED stepVars
    /\ UNCHANGED screenVars

\* a preset button is pressed: its params replace the current ones, and the
\* projection is computed again
ApplyPreset ==
    /\ result # Null
    /\ \E i \in 1..Len(PRESETS) :
          /\ params # PresetParams(i)
          /\ params' = PresetParams(i)
    /\ result' = Null
    /\ scenarios' = Null
    /\ prev' = Null
    /\ UNCHANGED incomeVars
    /\ UNCHANGED formatVars
    /\ UNCHANGED stepVars
    /\ UNCHANGED screenVars

Next == Calculate \/ Scenarios \/ SetFees \/ ApplyPreset

Spec == Init /\ [][Next]_vars

----------------------------------------------------------------------------
(* A caller that passes the projection any numbers, out-of-range ones       *)
(* included: a horizon of 0 or below, a monthly amount of 0 or below, a     *)
(* return so far below 0 that the monthly factor 1 + monthlyReturn is 0 or  *)
(* negative.                                                                *)

MaxAnyYears == 2

AnyAmounts == {<<-10000, 1>>, <<0, 1>>, <<10000, 1>>}
AnyReturns == AnnualReturns \cup {<<-1200, 1>>, <<-2100, 1>>, <<-2400, 1>>, <<-2700, 1>>}

InitAny ==
    /\ \E m \in AnyAmounts, y \in -1..MaxAnyYears, r \in AnyReturns,
          f \in {Num(x) : x \in FeesValues} \cup {Undefined} :
          params = [monthlyAmount |-> Num(m), years |-> y, annualReturn |-> Num(r), fees |-> f,
                    taxRate |-> Undefined]
    /\ result = Null
    /\ scenarios = Null
    /\ prev = Null
    /\ IncomeIdle
    /\ FormatIdle
    /\ StepIdle
    /\ ScreenIdle

NextAny == Calculate

SpecAny == InitAny /\ [][NextAny]_vars

----------------------------------------------------------------------------
(* A caller that passes a tax rate: it computes the projection and the risk *)
(* scenarios, then changes params.taxRate alone and computes both again,    *)
(* keeping the earlier parameters and results.                              *)

MaxTaxYears == 3

TaxAmounts == {<<10000, 1>>, <<33333, 1>>}
TaxRates == {<<0, 1>>, <<20315, 1000>>}

InitTax ==
    /\ \E m \in TaxAmounts, y \in 1..MaxTaxYears, r \in AnnualReturns, f \in {One, Undefined},
          t \in {Num(x) : x \in TaxRates} \cup {Undefined} :
          params = [monthlyAmount |-> Num(m), years |-> y, annualReturn |-> Num(r), fees |-> f,
                    taxRate |-> t]
    /\ result = Null
    /\ scenarios = Null
    /\ prev = Null
    /\ IncomeIdle
    /\ FormatIdle
    /\ StepIdle
    /\ ScreenIdle

SetTaxRate ==
    /\ scenarios # Null
    /\ prev = Null
    /\ \E t \in {Num(x) : x \in TaxRates} \cup {Undefined} :
          /\ t # params.taxRate
          /\ params' = [params EXCEPT !.taxRate = t]
    /\ prev' = [params |-> params, result |-> result, scenarios |-> scenarios]
    /\ result' = Null
    /\ scenarios' = Null
    /\ UNCHANGED incomeVars
    /\ UNCHANGED formatVars
    /\ UNCHANGED stepVars
    /\ UNCHANGED screenVars

NextTax == Calculate \/ Scenarios \/ SetTaxRate

SpecTax == InitTax /\ [][NextTax]_vars

----------------------------------------------------------------------------------------------------------------------------------------
(* One call of calculateInvestment followed statement by statement.  `run`  *)
(* holds the number-valued locals of the call and yearlyData; `ctl` holds   *)
(* the place reached, the loop counters year and month, and the counts      *)
(* `outer` and `steps` of the bodies of the year loop and of the month loop *)
(* executed so far.                                                         *)

MaxStepYears == 3

StepReturns == {<<0, 1>>, <<5, 1>>, <<-1, 1>>}
StepFees == {Undefined, One}

InitSteps ==
    /\ \E y \in 1..MaxStepYears, r \in StepReturns, f \in StepFees :
          params = [monthlyAmount |-> FromInt(10000), years |-> y, annualReturn |-> Num(r),
                    fees |-> f, taxRate |-> Undefined]
    /\ result = Null
    /\ scenarios = Null
    /\ prev = Null
    /\ run = [growth |-> Zero, currentPrincipal |-> Zero, currentTotal |-> Zero,
              yearEndTotal |-> Zero, yearlyPrincipal |-> Zero, yearlyData |-> <<>>]
    /\ ctl = [pc |-> "entry", year |-> 0, month |-> 0, outer |-> 0, steps |-> 0]
    /\ IncomeIdle
    /\ FormatIdle
    /\ ScreenIdle

\* control passes the statements before the year loop and its initialiser
EnterControl ==
    /\ ctl # Null
    /\ ctl.pc = "entry"
    /\ ctl' = [ctl EXCEPT !.pc = "year loop", !.year = 1]

\* the statements before the year loop, and its initialiser
Enter ==
    /\ EnterControl
    /\ LET fees            == IF params.fees = Undefined THEN Zero ELSE params.fees
           effectiveReturn == FDivInt(FSub(params.annualReturn, fees), 100)
           monthlyReturn   == FDivInt(effectiveReturn, 12)
       IN  run' = [run EXCEPT !.growth = FAdd(One, monthlyReturn)]
    /\ UNCHANGED investVars
    /\ UNCHANGED incomeVars
    /\ UNCHANGED formatVars
    /\ UNCHANGED screenVars

\* the test of the year loop passes, and control enters the month loop
YearStartControl ==
    /\ ctl # Null
    /\ ctl.pc = "year loop"
    /\ ctl.year <= params.years
    /\ ctl' = [ctl EXCEPT !.pc = "month loop", !.month = 1, !.outer = ctl.outer + 1]

\* the test of the year loop passes: the body up to the month loop
YearStart ==
    /\ YearStartControl
    /\ LET yearlyPrincipal == FMul(params.monthlyAmount, FromInt(12))
       IN  run' = [run EXCEPT !.yearlyPrincipal = yearlyPrincipal,
                              !.currentPrincipal = FAdd(run.currentPrincipal, yearlyPrincipal),
                              !.yearEndTotal = run.currentTotal]
    /\ UNCHANGED investVars
    /\ UNCHANGED incomeVars
    /\ UNCHANGED formatVars
    /\ UNCHANGED screenVars

\* the test of the month loop passes, and month++
MonthStepControl ==
    /\ ctl # Null
    /\ ctl.pc = "month loop"
    /\ ctl.month <= 12
    /\ ctl' = [ctl EXCEPT !.month = ctl.month + 1, !.steps = ctl.steps + 1]

\* the test of the month loop passes: one compounding step, then month++
MonthStep ==
    /\ MonthStepControl
    /\ run' = [run EXCEPT !.yearEndTotal =
                              FMul(FAdd(run.yearEndTotal, params.monthlyAmount), run.growth)]
    /\ UNCHANGED investVars
    /\ UNCHANGED incomeVars
    /\ UNCHANGED formatVars
    /\ UNCHANGED screenVars

\* YearEndControl with year advanced twice
YearEndControl_SkipsYear ==
    /\ ctl # Null
    /\ ctl.pc = "month loop"
    /\ ctl.month > 12
    /\ ctl' = [ctl EXCEPT !.pc = "year loop", !.year = ctl.year + 2]

\* the test of the month loop fails, and year++ at the end of the body
YearEndControl ==
    /\ ctl # Null
    /\ ctl.pc = "month loop"
    /\ ctl.month > 12
    /\ ctl' = [ctl EXCEPT !.pc = "year loop", !.year = ctl.year + 1]

\* the test of the month loop fails: the rest of the body of the year loop,
\* then year++
YearEnd ==
    /\ YearEndControl
    /\ run' = [run EXCEPT !.currentTotal = run.yearEndTotal,
                          !.yearlyData = Append(run.yearlyData,
                              YearlyData(ctl.year, run.currentPrincipal, run.yearEndTotal,
                                         run.currentTotal, run.yearlyPrincipal))]
    /\ UNCHANGED investVars
    /\ UNCHANGED incomeVars
    /\ UNCHANGED formatVars
    /\ UNCHANGED screenVars

\* the test of the year loop fails, and control reaches the return
ReturnControl ==
    /\ ctl # Null
    /\ ctl.pc = "year loop"
    /\ ctl.year > params.years
    /\ ctl' = [ctl EXCEPT !.pc = "returned"]

\* the test of the year loop fails: the statements after it
Return ==
    /\ ReturnControl
    /\ result' = SimulationResult(run.yearlyData)
    /\ UNCHANGED <<params, scenarios, prev, run>>
    /\ UNCHANGED incomeVars
    /\ UNCHANGED formatVars
    /\ UNCHANGED screenVars

NextSteps == Enter \/ YearStart \/ MonthStep \/ YearEnd \/ Return

SpecSteps == InitSteps /\ [][NextSteps]_vars

\* the control part of a step of the call
Control == EnterControl \/ YearStartControl \/ MonthStepControl \/ YearEndControl \/ ReturnControl

\* the call runs to completion on its own thread of control, with no
\* suspension point: while a statement can be executed, control advances
FairSpecSteps == SpecSteps /\ WF_ctl(Control)

----------------
(* A caller of the income engine: it holds the four inputs of the income    *)
(* screen and applies the engine's functions to them.  `returned` names the *)
(* functions whose value is held.                                           *)

MaxIncomeYears == 3

\* literals <<p, q>> = p/q, every one exactly a binary64 value
GrossIncomes == {<<0, 1>>, <<500, 1>>, <<599, 1>>, <<1199, 2>>, <<600, 1>>, <<625, 1>>,
                 <<999, 1>>, <<1999, 2>>, <<1000, 1>>, <<1002, 1>>}
Bonuses == {0, 80, 500}
MonthlyExpenses == {0, 5, 17, 40, 300}

InitIncome ==
    /\ \E g \in GrossIncomes, b \in Bonuses, e \in MonthlyExpenses, y \in 1..MaxIncomeYears :
          income = [grossIncome |-> g, bonus |-> b, monthlyExpense |-> e, years |-> y]
    /\ returned = {}
    /\ netIncome = 0
    /\ savings = Zero
    /\ savingsRate = Zero
    /\ yearlyIncome = <<>>
    /\ InvestIdle
    /\ FormatIdle
    /\ StepIdle
    /\ ScreenIdle

NetIncome ==
    /\ "calculateNetIncome" \notin returned
    /\ netIncome' = calculateNetIncome(Num(income.grossIncome))
    /\ returned' = returned \cup {"calculateNetIncome"}
    /\ UNCHANGED <<income, savings, savingsRate, yearlyIncome>>
    /\ UNCHANGED investVars
    /\ UNCHANGED formatVars
    /\ UNCHANGED stepVars
    /\ UNCHANGED screenVars

Savings ==
    /\ "calculateSavings" \notin returned
    /\ savings' = calculateSavings(Num(income.grossIncome), FromInt(income.bonus),
                                   FromInt(income.monthlyExpense), FromInt(income.years))
    /\ returned' = returned \cup {"calculateSavings"}
    /\ UNCHANGED <<income, netIncome, savingsRate, yearlyIncome>>
    /\ UNCHANGED investVars
    /\ UNCHANGED formatVars
    /\ UNCHANGED stepVars
    /\ UNCHANGED screenVars

SavingsRate ==
    /\ "calculateSavingsRate" \notin returned
    /\ savingsRate' = calculateSavingsRate(Num(income.grossIncome), FromInt(income.bonus),
                                           FromInt(income.monthlyExpense))
    /\ returned' = returned \cup {"calculateSavingsRate"}
    /\ UNCHANGED <<income, netIncome, savings, yearlyIncome>>
    /\ UNCHANGED investVars
    /\ UNCHANGED formatVars
    /\ UNCHANGED stepVars
    /\ UNCHANGED screenVars

YearlyIncome ==
    /\ "generateYearlyIncomeData" \notin returned
    /\ yearlyIncome' = generateYearlyIncomeData(Num(income.grossIncome), FromInt(income.bonus),
                                                FromInt(income.monthlyExpense), income.years)
    /\ returned' = returned \cup {"generateYearlyIncomeData"}
    /\ UNCHANGED <<income, netIncome, savings, savingsRate>>
    /\ UNCHANGED investVars
    /\ UNCHANGED formatVars
    /\ UNCHANGED stepVars
    /\ UNCHANGED screenVars

NextIncome == NetIncome \/ Savings \/ SavingsRate \/ YearlyIncome

SpecIncome == InitIncome /\ [][NextIncome]_vars

----------------------------------------------------------------------------
(* A caller of the income engine that passes any amounts, amounts with a    *)
(* fractional part included: it computes the savings of the horizon with    *)
(* calculateSavings and with generateYearlyIncomeData.                      *)

MaxAnyIncomeYears == 3

\* literals <<p, q>> = p/q
AnyGrossIncomes == {<<500, 1>>, <<625, 1>>, <<1199, 2>>}
AnyBonuses == {<<0, 1>>, <<80, 1>>, <<1, 10>>}
AnyMonthlyExpenses == {<<2, 10>>, <<3, 10>>, <<5, 1>>, <<17, 1>>, <<300, 1>>}

InitIncomeAny ==
    /\ \E g \in AnyGrossIncomes, b \in AnyBonuses, e \in AnyMonthlyExpenses,
          y \in 1..MaxAnyIncomeYears :
          income = [grossIncome |-> g, bonus |-> b, monthlyExpense |-> e, years |-> y]
    /\ returned = {}
    /\ netIncome = 0
    /\ savings = Zero
    /\ savingsRate = Zero
    /\ yearlyIncome = <<>>
    /\ InvestIdle
    /\ FormatIdle
    /\ StepIdle
    /\ ScreenIdle

SavingsOfAny ==
    /\ "calculateSavings" \notin returned
    /\ savings' = calculateSavings(Num(income.grossIncome), Num(income.bonus),
                                   Num(income.monthlyExpense), FromInt(income.years))
    /\ returned' = returned \cup {"calculateSavings"}
    /\ UNCHANGED <<income, netIncome, savingsRate, yearlyIncome>>
    /\ UNCHANGED investVars
    /\ UNCHANGED formatVars
    /\ UNCHANGED stepVars
    /\ UNCHANGED screenVars

YearlyIncomeOfAny ==
    /\ "generateYearlyIncomeData" \notin returned
    /\ yearlyIncome' = generateYearlyIncomeData(Num(income.grossIncome), Num(income.bonus),
                                                Num(income.monthlyExpense), income.years)
    /\ returned' = returned \cup {"generateYearlyIncomeData"}
    /\ UNCHANGED <<income, netIncome, savings, savingsRate>>
    /\ UNCHANGED investVars
    /\ UNCHANGED formatVars
    /\ UNCHANGED stepVars
    /\ UNCHANGED screenVars

NextIncomeAny == SavingsOfAny \/ YearlyIncomeOfAny

SpecIncomeAny == InitIncomeAny /\ [][NextIncomeAny]_vars

----------------------------------------------------------------------------
(* A caller of the formatters: it holds a number and formats it as a        *)
(* percentage and as a currency amount.                                     *)

\* literals <<p, q>> = p/q; none is a decimal that lies half-way between two
\* results without being a binary64 value
FormatValues ==
    {<<0, 1>>, <<5, 1>>, <<35, 10>>, <<5123, 1000>>, <<5678, 1000>>,
     <<1, 4>>, <<3, 4>>, <<1, 2>>, <<3, 2>>, <<5, 2>>, <<1999, 2>>,
     <<4, 10>>, <<49, 100>>, <<1, 1000>>, <<999, 100>>, <<994, 100>>,
     <<7, 1>>, <<10, 1>>, <<100, 1>>, <<999, 1>>, <<1000, 1>>,
     <<12345, 1>>, <<123456, 100>>, <<1000000, 1>>, <<1234567, 1>>,
     <<999999, 1>>, <<9999996, 10>>, <<25, 10>>, <<15, 1>>, <<2024, 1>>}

InitFormat ==
    /\ amount \in FormatValues
    /\ percentText = <<>>
    /\ currencyText = <<>>
    /\ InvestIdle
    /\ IncomeIdle
    /\ StepIdle
    /\ ScreenIdle

FormatPercent ==
    /\ percentText = <<>>
    /\ percentText' = formatPercent(Num(amount))
    /\ UNCHANGED <<amount, currencyText>>
    /\ UNCHANGED investVars
    /\ UNCHANGED incomeVars
    /\ UNCHANGED stepVars
    /\ UNCHANGED screenVars

FormatCurrency ==
    /\ currencyText = <<>>
    /\ currencyText' = formatCurrency(Num(amount))
    /\ UNCHANGED <<amount, percentText>>
    /\ UNCHANGED investVars
    /\ UNCHANGED incomeVars
    /\ UNCHANGED stepVars
    /\ UNCHANGED screenVars

NextFormat == FormatPercent \/ FormatCurrency

SpecFormat == InitFormat /\ [][NextFormat]_vars

----------------------------------------------------------------------------
(* The income screen and the settings it keeps in AsyncStorage.  `screen`   *)
(* is the component state, `effects` the effects waiting to run after a     *)
(* render, in the order they are declared, `ops` the storage operations     *)
(* issued and not yet settled, `storage` the item under STORAGE_KEY.  The   *)
(* storage settles the operations in flight in any order.  `session` notes  *)
(* what the storage held when the screen was mounted, what loadSettings     *)
(* read, and how often the user moved a slider.                             *)

MaxSlides == 1
MaxRestarts == 1

\* the useState initial values
DefaultSettings ==
    [isMonthlyMode |-> TRUE, monthlySalary |-> 30, monthlyExpense |-> 20, bonus |-> 80,
     years |-> 10]

\* values of the sliders: the minimum of each, and the maximum of the bonus
SliderValues ==
    [monthlySalary |-> {15}, monthlyExpense |-> {5}, bonus |-> {0, 500}, years |-> {1}]

\* the number the decimal digits t spell
RECURSIVE ParseNumber(_)
ParseNumber(t) ==
    IF t = <<>> THEN 0
    ELSE 10 * ParseNumber(SubSeq(t, 1, Len(t) - 1))
         + ((CHOOSE d \in 1..10 : Digits[d] = t[Len(t)]) - 1)

\* JSON.stringify of the settings object: the text of each member's value
JSONStringify(v) ==
    [isMonthlyMode  |-> IF v.isMonthlyMode THEN "true" ELSE "false",
     monthlySalary  |-> DecimalDigits(v.monthlySalary),
     monthlyExpense |-> DecimalDigits(v.monthlyExpense),
     bonus          |-> DecimalDigits(v.bonus),
     years          |-> DecimalDigits(v.years)]

\* JSON.parse of such a text
JSONParse(t) ==
    [isMonthlyMode  |-> t.isMonthlyMode = "true",
     monthlySalary  |-> ParseNumber(t.monthlySalary),
     monthlyExpense |-> ParseNumber(t.monthlyExpense),
     bonus          |-> ParseNumber(t.bonus),
     years          |-> ParseNumber(t.years)]

\* x || d for a number x
OrDefault(x, d) == IF x = 0 THEN d ELSE x

\* the state loadSettings sets from the parsed settings (isMonthlyMode is a
\* member of every text saveSettings writes)
LoadedSettings(settings) ==
    [isMonthlyMode  |-> settings.isMonthlyMode,
     monthlySalary  |-> OrDefault(settings.monthlySalary, 30),
     monthlyExpense |-> OrDefault(settings.monthlyExpense, 20),
     bonus          |-> OrDefault(settings.bonus, 80),
     years          |-> OrDefault(settings.years, 10)]

\* a sequence without its i-th element
Without(q, i) == SubSeq(q, 1, i - 1) \o SubSeq(q, i + 1, Len(q))

\* the screen is mounted for the first time, on a device that stores nothing
InitScreen ==
    /\ storage = Null
    /\ screen = DefaultSettings
    /\ effects = <<"saveSettings", "loadSettings">>
    /\ ops = <<>>
    /\ session = [persisted |-> Null, read |-> Null, loaded |-> FALSE, slides |-> 0,
                  restarts |-> 0]
    /\ InvestIdle
    /\ IncomeIdle
    /\ FormatIdle
    /\ StepIdle

\* the save effect runs: setItem is called with the state of the render
SaveSettingsEffect ==
    /\ effects # <<>>
    /\ Head(effects) = "saveSettings"
    /\ effects' = Tail(effects)
    /\ ops' = Append(ops, [op |-> "setItem", value |-> JSONStringify(screen)])
    /\ UNCHANGED <<storage, screen, session>>
    /\ UNCHANGED investVars
    /\ UNCHANGED incomeVars
    /\ UNCHANGED formatVars
    /\ UNCHANGED stepVars

\* the load effect runs: getItem is called
LoadSettingsEffect ==
    /\ effects # <<>>
    /\ Head(effects) = "loadSettings"
    /\ effects' = Tail(effects)
    /\ ops' = Append(ops, [op |-> "getItem", saved |-> Undefined])
    /\ UNCHANGED <<storage, screen, session>>
    /\ UNCHANGED investVars
    /\ UNCHANGED incomeVars
    /\ UNCHANGED formatVars
    /\ UNCHANGED stepVars

\* the storage carries out a setItem in flight
StorageSetItem ==
    /\ \E i \in 1..Len(ops) :
          /\ ops[i].op = "setItem"
          /\ storage' = ops[i].value
          /\ ops' = Without(ops, i)
    /\ UNCHANGED <<screen, effects, session>>
    /\ UNCHANGED investVars
    /\ UNCHANGED incomeVars
    /\ UNCHANGED formatVars
    /\ UNCHANGED stepVars

\* the storage carries out a getItem in flight: the promise has its value
StorageGetItem ==
    /\ \E i \in 1..Len(ops) :
          /\ ops[i].op = "getItem"
          /\ ops[i].saved = Undefined
          /\ ops' = [ops EXCEPT ![i].saved = storage]
    /\ session' = [session EXCEPT !.read = [saved |-> storage]]
    /\ UNCHANGED <<storage, screen, effects>>
    /\ UNCHANGED investVars
    /\ UNCHANGED incomeVars
    /\ UNCHANGED formatVars
    /\ UNCHANGED stepVars

\* loadSettings goes on after the await (effects that wait are run before the
\* state is set); a state that differs is rendered, and the save effect runs
\* again
LoadSettingsResume ==
    /\ effects = <<>>
    /\ \E i \in 1..Len(ops) :
          /\ ops[i].op = "getItem"
          /\ ops[i].saved # Undefined
          /\ ops' = Without(ops, i)
          /\ screen' = IF ops[i].saved = Null THEN screen
                       ELSE LoadedSettings(JSONParse(ops[i].saved))
          /\ session' = [session EXCEPT !.loaded = ops[i].saved # Null]
    /\ effects' = IF screen' # screen THEN Append(effects, "saveSettings") ELSE effects
    /\ UNCHANGED storage
    /\ UNCHANGED investVars
    /\ UNCHANGED incomeVars
    /\ UNCHANGED formatVars
    /\ UNCHANGED stepVars

\* the user moves a slider, or switches between the monthly and the yearly mode
\* (effects that wait are run before the event is handled)
Slide ==
    /\ effects = <<>>
    /\ session.slides < MaxSlides
    /\ \/ \E v \in SliderValues.monthlySalary : screen' = [screen EXCEPT !.monthlySalary = v]
       \/ \E v \in SliderValues.monthlyExpense : screen' = [screen EXCEPT !.monthlyExpense = v]
       \/ \E v \in SliderValues.bonus : screen' = [screen EXCEPT !.bonus = v]
       \/ \E v \in SliderValues.years : screen' = [screen EXCEPT !.years = v]
       \/ screen' = [screen EXCEPT !.isMonthlyMode = ~screen.isMonthlyMode]
    /\ screen' # screen
    /\ effects' = Append(effects, "saveSettings")
    /\ session' = [session EXCEPT !.slides = session.slides + 1, !.loaded = FALSE]
    /\ UNCHANGED <<storage, ops>>
    /\ UNCHANGED investVars
    /\ UNCHANGED incomeVars
    /\ UNCHANGED formatVars
    /\ UNCHANGED stepVars

\* the app is closed with nothing in flight and opened again: the screen is
\* mounted with the initial state, and both effects wait to run
Restart ==
    /\ effects = <<>>
    /\ ops = <<>>
    /\ session.restarts < MaxRestarts
    /\ screen' = DefaultSettings
    /\ effects' = <<"saveSettings", "loadSettings">>
    /\ session' = [persisted |-> storage, read |-> Null, loaded |-> FALSE, slides |-> 0,
                   restarts |-> session.restarts + 1]
    /\ UNCHANGED <<storage, ops>>
    /\ UNCHANGED investVars
    /\ UNCHANGED incomeVars
    /\ UNCHANGED formatVars
    /\ UNCHANGED stepVars

NextScreen ==
    \/ SaveSettingsEffect
    \/ LoadSettingsEffect
    \/ StorageSetItem
    \/ StorageGetItem
    \/ LoadSettingsResume
    \/ Slide
    \/ Restart

SpecScreen == InitScreen /\ [][NextScreen]_vars

----------------------------------------------------------------------------
(* Properties of the investment projection engine.                          *)

IsResult(r) == r # Null /\ r # TypeError

\* the fee the engine uses: params.fees, 0 when it is left out
EffFees(p) == IF p.fees = Undefined THEN Zero ELSE p.fees

\* x is a whole number
IsInteger(x) == FromInt(MathRound(x)) = x

ZeroReturn(p) == p.annualReturn = EffFees(p)
PositiveReturn(p) == FLess(EffFees(p), p.annualReturn)
NonNegativeReturn(p) == ~FLess(p.annualReturn, EffFees(p))

\* every entry of r has total = principal + earnings, and so have the summary fields
Balanced(r) ==
    /\ \A i \in 1..Len(r.yearlyData) :
          r.yearlyData[i].total = r.yearlyData[i].principal + r.yearlyData[i].earnings
    /\ r.finalAmount = r.totalPrincipal + r.totalEarnings

\* C1: in every result of calculateInvestment, for any positive monthlyAmount,
\* every yearly entry has total = principal + earnings, and
\* finalAmount = totalPrincipal + totalEarnings.
C1_TotalIsPrincipalPlusEarnings == IsResult(result) => Balanced(result)

\* the conclusion of C2 for the result r of params p
NoEarnings(p, r) ==
    /\ r.totalEarnings = 0
    /\ r.finalAmount = r.totalPrincipal
    /\ FromInt(r.totalPrincipal) = FMul(FMul(p.monthlyAmount, FromInt(12)), FromInt(p.years))
    /\ \A i \in 1..Len(r.yearlyData) :
          /\ r.yearlyData[i].total = r.yearlyData[i].principal
          /\ r.yearlyData[i].earnings = 0

\* C2 as stated: for all valid params with annualReturn = fees, totalEarnings = 0,
\* finalAmount = totalPrincipal = monthlyAmount * 12 * years, and every yearly
\* entry has total = principal and earnings = 0.
C2_ZeroReturnAnyAmount == IsResult(result) /\ ZeroReturn(params) => NoEarnings(params, result)

\* C2 amended: the same, for params whose monthlyAmount is a whole number.
C2_ZeroReturnWholeAmount ==
    IsResult(result) /\ ZeroReturn(params) /\ IsInteger(params.monthlyAmount)
        => NoEarnings(params, result)

C2_Witness ==
    /\ IsResult(result)
    /\ params.annualReturn = One
    /\ params.fees = One
    /\ params.monthlyAmount = FromInt(10000)
    /\ params.years = 3
    /\ result.finalAmount = 360000

\* C3 as stated: for all valid params with annualReturn > fees,
\* finalAmount > totalPrincipal and totalEarnings > 0.
C3_PositiveReturnStrictGain ==
    IsResult(result) /\ PositiveReturn(params)
        => result.finalAmount > result.totalPrincipal /\ result.totalEarnings > 0

\* C3 amended: for valid params with a whole monthlyAmount and annualReturn > fees,
\* finalAmount >= totalPrincipal and totalEarnings >= 0 (rounding to whole units
\* can absorb the whole gain).
C3_PositiveReturnNoLoss ==
    IsResult(result) /\ PositiveReturn(params) /\ IsInteger(params.monthlyAmount)
        => result.finalAmount >= result.totalPrincipal /\ result.totalEarnings >= 0

C3_Witness ==
    /\ IsResult(result)
    /\ PositiveReturn(params)
    /\ params.monthlyAmount = FromInt(10000)
    /\ result.finalAmount > result.totalPrincipal
    /\ result.totalEarnings > 0

\* C4: for every integer years >= 1, yearlyData has exactly `years` entries whose
\* year fields are 1, 2, ..., years in this order, and finalAmount, totalPrincipal
\* and totalEarnings are the total, principal and earnings of the last entry.
C4_OneEntryPerYear ==
    result # Null /\ params.years >= 1 =>
        /\ result # TypeError
        /\ Len(result.yearlyData) = params.years
        /\ \A i \in 1..Len(result.yearlyData) : result.yearlyData[i].year = i
        /\ result.finalAmount = result.yearlyData[params.years].total
        /\ result.totalPrincipal = result.yearlyData[params.years].principal
        /\ result.totalEarnings = result.yearlyData[params.years].earnings

C4_Witness == IsResult(result) /\ params.years = 3 /\ Len(result.yearlyData) = 3

StrictGrowth(r) ==
    \A i \in 2..Len(r.yearlyData) :
        /\ r.yearlyData[i].principal > r.yearlyData[i - 1].principal
        /\ r.yearlyData[i].total > r.yearlyData[i - 1].total

WeakGrowth(r) ==
    \A i \in 2..Len(r.yearlyData) :
        /\ r.yearlyData[i].principal >= r.yearlyData[i - 1].principal
        /\ r.yearlyData[i].total >= r.yearlyData[i - 1].total

\* C5 as stated: for all valid params with annualReturn >= fees, principal and
\* total grow strictly from each yearly entry to the next.
C5_StrictGrowthAnyAmount ==
    IsResult(result) /\ NonNegativeReturn(params) => StrictGrowth(result)

\* C5 amended: for valid params with annualReturn >= fees, principal and total
\* never decrease from one yearly entry to the next, and they grow strictly
\* when monthlyAmount is a whole number (>= 1).
C5_GrowthWholeAmount ==
    IsResult(result) /\ NonNegativeReturn(params) =>
        /\ WeakGrowth(result)
        /\ IsInteger(params.monthlyAmount) => StrictGrowth(result)

C5_Witness ==
    /\ IsResult(result)
    /\ NonNegativeReturn(params)
    /\ IsInteger(params.monthlyAmount)
    /\ params.years = 3
    /\ StrictGrowth(result)

\* prev and the current result are projections of params that differ only in
\* fees, the earlier one with the lower fee, both with annualReturn above the fee
FeesRaised ==
    /\ prev # Null
    /\ IsResult(result)
    /\ IsResult(prev.result)
    /\ FLess(EffFees(prev.params), EffFees(params))
    /\ PositiveReturn(params)

FeesLowered ==
    /\ prev # Null
    /\ IsResult(result)
    /\ IsResult(prev.result)
    /\ FLess(EffFees(params), EffFees(prev.params))
    /\ PositiveReturn(prev.params)

\* C6 as stated: of two valid params that differ only in fees, both with
\* annualReturn above the fee, the one with the higher fee has the strictly
\* smaller finalAmount.
C6_HigherFeesStrictlyLess ==
    /\ FeesRaised => result.finalAmount < prev.result.finalAmount
    /\ FeesLowered => prev.result.finalAmount < result.finalAmount

\* C6 amended: ... the one with the higher fee never has the larger finalAmount
\* (the two are equal when rounding absorbs the difference).
C6_HigherFeesNotMore ==
    /\ FeesRaised => result.finalAmount <= prev.result.finalAmount
    /\ FeesLowered => prev.result.finalAmount <= result.finalAmount

C6_Witness ==
    /\ FeesRaised
    /\ params.monthlyAmount = FromInt(10000)
    /\ result.finalAmount < prev.result.finalAmount

\* C7: for every params the engine accepts, annualReturn below 0 included,
\* optimistic.finalAmount >= base.finalAmount >= pessimistic.finalAmount.
C7_ScenariosOrdered ==
    scenarios # Null =>
        /\ scenarios.optimistic.finalAmount >= scenarios.base.finalAmount
        /\ scenarios.base.finalAmount >= scenarios.pessimistic.finalAmount

\* C8: calculateRiskScenarios(p) returns base = calculateInvestment(p),
\* optimistic = calculateInvestment(p with annualReturn + 2) and pessimistic =
\* calculateInvestment(p with annualReturn = max(0, annualReturn - 2));
\* monthlyAmount, years and fees are those of p in all three.  (The returns of
\* the model are whole numbers, so the shifted returns are formed on integers.)
C8_ScenariosAreProjections ==
    scenarios # Null =>
        LET r   == MathRound(params.annualReturn)
            low == IF r - 2 > 0 THEN r - 2 ELSE 0
        IN  /\ scenarios.base = result
            /\ scenarios.optimistic =
                  calculateInvestment([params EXCEPT !.annualReturn = FromInt(r + 2)])
            /\ scenarios.pessimistic =
                  calculateInvestment([params EXCEPT !.annualReturn = FromInt(low)])

C8_Witness ==
    /\ scenarios # Null
    /\ params.annualReturn = One
    /\ scenarios.pessimistic.totalEarnings = 0
    /\ scenarios.optimistic.finalAmount > scenarios.base.finalAmount
    /\ scenarios.base.finalAmount > scenarios.pessimistic.finalAmount

\* T(k) of the recurrence T(0) = 0, T(j + 1) = (T(j) + monthlyAmount) * growth,
\* continued from the balance T for k more months without rounding to whole units
RECURSIVE Balance(_, _, _, _)
Balance(T, monthlyAmount, growth, k) ==
    IF k = 0 THEN T
    ELSE Balance(FMul(FAdd(T, monthlyAmount), growth), monthlyAmount, growth, k - 1)

\* 1 + (annualReturn - fees) / 1200
MonthlyGrowth(p) == FAdd(One, FDivInt(FSub(p.annualReturn, EffFees(p)), 1200))

\* entries y.. of yearlyData report as total the whole unit nearest to the
\* balance 12 months after T, 24 months after T, ..., neither rounded on the way
RECURSIVE TotalsFollow(_, _, _, _, _)
TotalsFollow(yearlyData, monthlyAmount, growth, y, T) ==
    IF y > Len(yearlyData) THEN TRUE
    ELSE LET next == Balance(T, monthlyAmount, growth, 12)
         IN  /\ yearlyData[y].total = MathRound(next)
             /\ TotalsFollow(yearlyData, monthlyAmount, growth, y + 1, next)

\* C19: for every year y in 1..years, yearlyData[y-1].total = round(T(12 * y)) and
\* yearlyData[y-1].principal = round(monthlyAmount * 12 * y), T being iterated month
\* by month with no intermediate rounding: the balance carried into the next year
\* is the unrounded one, never the rounded total that was reported.
C19_UnroundedCarry ==
    IsResult(result) =>
        /\ TotalsFollow(result.yearlyData, params.monthlyAmount, MonthlyGrowth(params), 1, Zero)
        /\ \A y \in 1..Len(result.yearlyData) :
              result.yearlyData[y].principal =
                  MathRound(FMul(FMul(params.monthlyAmount, FromInt(12)), FromInt(y)))

C19_Witness ==
    /\ IsResult(result)
    /\ params.monthlyAmount = FromInt(10000)
    /\ params.annualReturn = FromInt(5)
    /\ params.fees = Undefined
    /\ params.years = 3
    /\ result.yearlyData[1].total = 123300
    /\ result.yearlyData[3].total = 389148

\* C20: for every year y, the reported yearlyEarnings equals (reported rounded
\* total of year y) - (reported rounded total of year y - 1, 0 for y = 1)
\* - monthlyAmount * 12: it is derived from the rounded totals.
C20_YearlyEarningsFromRoundedTotals ==
    IsResult(result) =>
        \A y \in 1..Len(result.yearlyData) :
            LET previous == IF y = 1 THEN 0 ELSE result.yearlyData[y - 1].total
            IN  FromInt(result.yearlyData[y].yearlyEarnings) =
                    FSub(FromInt(result.yearlyData[y].total - previous),
                         FMul(params.monthlyAmount, FromInt(12)))

\* C15: calculateInvestment never throws for numeric input, years = 0, negative
\* years and monthlyAmount <= 0 included: every call returns a SimulationResult.
C15_NeverThrows == result # Null => result # TypeError

\* C14: the preset catalog has exactly 4 entries with pairwise distinct ids
\* nisa_standard, conservative, aggressive and retirement, and for every entry
\* calculateInvestment(preset.params) yields
\* totalPrincipal = monthlyAmount * 12 * years and finalAmount > totalPrincipal.
C14_PresetsProject ==
    /\ Len(PRESETS) = 4
    /\ \A i, j \in 1..Len(PRESETS) : i # j => PRESETS[i].id # PRESETS[j].id
    /\ {PRESETS[i].id : i \in 1..Len(PRESETS)} =
          {"nisa_standard", "conservative", "aggressive", "retirement"}
    /\ \A i \in 1..Len(PRESETS) :
          params = PresetParams(i) /\ result # Null =>
              /\ result # TypeError
              /\ result.totalPrincipal =
                    PRESETS[i].params.monthlyAmount * 12 * PRESETS[i].params.years
              /\ result.finalAmount > result.totalPrincipal

C14_Witness ==
    /\ params = PresetParams(4)
    /\ IsResult(result)
    /\ result.totalPrincipal = 10800000
    /\ result.finalAmount = 25071791

\* the yearlyEarnings of entries 1..n of yearlyData, added up
RECURSIVE SumYearlyEarnings(_, _)
SumYearlyEarnings(yearlyData, n) ==
    IF n = 0 THEN 0 ELSE SumYearlyEarnings(yearlyData, n - 1) + yearlyData[n].yearlyEarnings

\* C21: the sum of yearlyEarnings over all yearly entries equals totalEarnings;
\* that is, for every year y, earnings[y] - earnings[y-1] = yearlyEarnings[y],
\* with earnings[0] = 0.
C21_YearlyEarningsSumToTotal ==
    IsResult(result) =>
        /\ SumYearlyEarnings(result.yearlyData, Len(result.yearlyData)) = result.totalEarnings
        /\ \A y \in 1..Len(result.yearlyData) :
              LET before == IF y = 1 THEN 0 ELSE result.yearlyData[y - 1].earnings
              IN  result.yearlyData[y].earnings - before = result.yearlyData[y].yearlyEarnings

\* annualReturn - fees of p is n or above
EffectiveReturnAtLeast(p, n) == ~FLess(FSub(p.annualReturn, EffFees(p)), FromInt(n))

\* C22 as stated: for every result of calculateInvestment, those with negative
\* effective return (fees > annualReturn, or annualReturn < 0 of any magnitude)
\* included, the reported principal and the reported total are non-decreasing
\* across yearlyData.
C22_NeverDecreasing == IsResult(result) => WeakGrowth(result)

\* C22 amended: the same for every result with monthlyAmount > 0 and an effective
\* return of -1200% or above (the monthly factor is not negative), negative
\* effective returns included.
C22_NeverDecreasingPositiveFactor ==
    IsResult(result) /\ FLess(Zero, params.monthlyAmount)
                     /\ EffectiveReturnAtLeast(params, -1200)
        => WeakGrowth(result)

C22_Witness ==
    /\ IsResult(result)
    /\ params.monthlyAmount = FromInt(10000)
    /\ params.annualReturn = FromInt(-1)
    /\ params.fees = One
    /\ params.years = 2
    /\ result.yearlyData[1].total = 118708
    /\ result.yearlyData[2].total = 235063
    /\ result.yearlyData[2].principal = 240000

\* C23: for all valid params with non-negative effective return
\* (annualReturn >= fees), the reported cumulative earnings are non-decreasing
\* across yearlyData and never negative.
C23_EarningsNeverDecrease ==
    IsResult(result) /\ NonNegativeReturn(params) =>
        /\ \A y \in 1..Len(result.yearlyData) : result.yearlyData[y].earnings >= 0
        /\ \A y \in 2..Len(result.yearlyData) :
              result.yearlyData[y].earnings >= result.yearlyData[y - 1].earnings

C23_Witness ==
    /\ IsResult(result)
    /\ NonNegativeReturn(params)
    /\ params.monthlyAmount = FromInt(10000)
    /\ params.years = 3
    /\ result.yearlyData[1].earnings = 3300
    /\ result.yearlyData[2].earnings = 12909
    /\ result.yearlyData[3].earnings = 29148

\* every entry of r reports a total that is at most its principal, and
\* cumulative earnings that are not positive
TotalWithinPrincipal(r) ==
    \A y \in 1..Len(r.yearlyData) :
        /\ r.yearlyData[y].total <= r.yearlyData[y].principal
        /\ r.yearlyData[y].earnings <= 0

\* C24 as stated: a negative effective return (annualReturn < fees) is accepted
\* without a guard: calculateInvestment returns a result in which every year's
\* reported total is at most that year's reported principal, so cumulative
\* earnings are never positive.
C24_NegativeReturnShrinks ==
    result # Null /\ params.years >= 1 /\ FLess(params.annualReturn, EffFees(params))
        => IsResult(result) /\ TotalWithinPrincipal(result)

\* C24 amended: the same for a monthlyAmount that is a whole number >= 1 and a
\* negative effective return of -2400% or above (a monthly factor of -1 or above).
C24_ModerateNegativeReturnShrinks ==
    result # Null /\ params.years >= 1 /\ FLess(params.annualReturn, EffFees(params))
        => /\ IsResult(result)
           /\ FLess(Zero, params.monthlyAmount) /\ IsInteger(params.monthlyAmount)
              /\ EffectiveReturnAtLeast(params, -2400) => TotalWithinPrincipal(result)

C24_Witness ==
    /\ IsResult(result)
    /\ params.monthlyAmount = FromInt(10000)
    /\ params.annualReturn = Zero
    /\ params.fees = One
    /\ params.years = 2
    /\ result.yearlyData[1].total = 119352
    /\ result.yearlyData[2].total = 237516
    /\ result.yearlyData[2].earnings = -2484

\* C25: the taxRate parameter has no influence on the projection: for any two
\* params that differ only in taxRate (taxRate absent included),
\* calculateInvestment and calculateRiskScenarios return equal results.
C25_TaxRateIgnored ==
    prev # Null /\ params = [prev.params EXCEPT !.taxRate = params.taxRate] =>
        /\ result # Null => result = prev.result
        /\ scenarios # Null => scenarios = prev.scenarios

C25_Witness ==
    /\ prev # Null
    /\ prev.params.taxRate = Undefined
    /\ params.taxRate = Lit(20315, 1000)
    /\ params = [prev.params EXCEPT !.taxRate = params.taxRate]
    /\ params.monthlyAmount = FromInt(10000)
    /\ params.annualReturn = FromInt(5)
    /\ params.fees = Undefined
    /\ params.years = 2
    /\ scenarios # Null
    /\ result.finalAmount = 252909
    /\ prev.result.finalAmount = 252909
    /\ scenarios.optimistic = prev.scenarios.optimistic

\* the call has returned
Returned == ctl # Null /\ ctl.pc = "returned"

\* the call has returned after `years` bodies of the year loop and 12 * years
\* bodies of the month loop, and between two years 12 bodies of the month loop
\* have been executed for every body of the year loop
TwelveStepsPerYear ==
    /\ Returned => ctl.outer = params.years /\ ctl.steps = 12 * params.years
    /\ ctl # Null /\ ctl.pc = "year loop" => ctl.steps = 12 * ctl.outer

\* C26: calculateInvestment terminates for every integer years >= 1 and performs
\* exactly `years` outer iterations of exactly 12 monthly compounding steps each
\* (12 * years steps in total) before returning.
C26_TerminatesAfterTwelveStepsPerYear == <>Returned /\ []TwelveStepsPerYear

C26_Witness ==
    /\ Returned
    /\ params.years = 3
    /\ ctl.outer = 3
    /\ ctl.steps = 36
    /\ result = calculateInvestment(params)
    /\ result.finalAmount = 389148

\* C27: projections are prefix-consistent in the horizon: for params equal except
\* for years, with k <= N, the first k entries of
\* calculateInvestment(years = N).yearlyData are identical to
\* calculateInvestment(years = k).yearlyData.
C27_PrefixConsistent ==
    IsResult(result) =>
        \A k \in 1..params.years :
            SubSeq(result.yearlyData, 1, k) =
                calculateInvestment([params EXCEPT !.years = k]).yearlyData

C27_Witness ==
    /\ IsResult(result)
    /\ params.monthlyAmount = FromInt(33333)
    /\ params.annualReturn = FromInt(3)
    /\ params.years = 3
    /\ SubSeq(result.yearlyData, 1, 2) =
          calculateInvestment([params EXCEPT !.years = 2]).yearlyData
    /\ result.yearlyData[2].total =
          calculateInvestment([params EXCEPT !.years = 2]).finalAmount

----------------------------------------------------------------------------
(* Properties of the income engine, stated on exact integer arithmetic.     *)

\* floor(n / d + 1/2) for d > 0: the integer nearest to n / d, ties upward
RoundDiv(n, d) == (2 * n + d) \div (2 * d)

\* the deduction, in percent, the claim assigns to the gross income p/q
DeductionPercent(g) ==
    IF g[1] >= 1000 * g[2] THEN 25
    ELSE IF g[1] >= 600 * g[2] THEN 22
    ELSE 20

\* round(gross * (1 - d)) for the gross income p/q
ExpectedNetIncome(g) == RoundDiv(g[1] * (100 - DeductionPercent(g)), 100 * g[2])

\* C9: calculateNetIncome(gross) = round(gross * (1 - d)) with d = 25% when
\* gross >= 1000, 22% when 600 <= gross < 1000 and 20% when gross < 600; in
\* particular netIncome(1000) = 750, netIncome(600) = 468, netIncome(500) = 400.
C9_NetIncomeBrackets ==
    "calculateNetIncome" \in returned =>
        /\ netIncome = ExpectedNetIncome(income.grossIncome)
        /\ income.grossIncome = <<1000, 1>> => netIncome = 750
        /\ income.grossIncome = <<600, 1>> => netIncome = 468
        /\ income.grossIncome = <<500, 1>> => netIncome = 400

C9_Witness ==
    /\ "calculateNetIncome" \in returned
    /\ income.grossIncome = <<600, 1>>
    /\ netIncome = 468

\* total net income and total expense over the horizon, as integers
TotalNetIncome == (ExpectedNetIncome(income.grossIncome) + income.bonus) * income.years
TotalExpense == income.monthlyExpense * 12 * income.years

\* C10: calculateSavings is >= 0 for all inputs, equals
\* max(0, (calculateNetIncome(gross) + bonus) * years - monthlyExpense * 12 * years),
\* and is 0 whenever total expenses are at least total net income.
C10_SavingsFloored ==
    "calculateSavings" \in returned =>
        /\ ~FLess(savings, Zero)
        /\ savings = FromInt(IF TotalNetIncome - TotalExpense > 0
                             THEN TotalNetIncome - TotalExpense ELSE 0)
        /\ TotalExpense >= TotalNetIncome => savings = Zero

C10_Witness ==
    /\ "calculateSavings" \in returned
    /\ TotalExpense > TotalNetIncome
    /\ savings = Zero

\* annual net income and annual expense of the inputs, as integers
AnnualNetIncome == ExpectedNetIncome(income.grossIncome) + income.bonus
AnnualExpense == income.monthlyExpense * 12

\* max(0, round((annualNetIncome - annualExpense) / annualNetIncome * 100)), exactly
ExpectedSavingsRate ==
    LET r == RoundDiv(100 * (AnnualNetIncome - AnnualExpense), AnnualNetIncome)
    IN  IF r > 0 THEN r ELSE 0

\* C11: for positive-income inputs (gross > 0, bonus >= 0, monthlyExpense >= 0),
\* calculateSavingsRate returns an integer in [0, 100], equal to
\* max(0, round((annualNetIncome - annualExpense) / annualNetIncome * 100)).
C11_SavingsRateRounded ==
    "calculateSavingsRate" \in returned /\ income.grossIncome[1] > 0 =>
        /\ IsInteger(savingsRate)
        /\ MathRound(savingsRate) \in 0..100
        /\ savingsRate = FromInt(ExpectedSavingsRate)

\* C12: when calculateNetIncome(gross) + bonus = 0, calculateSavingsRate returns 0
\* for every monthlyExpense (no division by zero, no fault).
C12_ZeroIncomeZeroRate ==
    "calculateSavingsRate" \in returned /\ AnnualNetIncome = 0 => savingsRate = Zero

C12_Witness ==
    /\ "calculateSavingsRate" \in returned
    /\ AnnualNetIncome = 0
    /\ income.monthlyExpense = 0
    /\ savingsRate = Zero

\* the savings of one year, as an integer
AnnualSavings ==
    IF AnnualNetIncome - AnnualExpense > 0 THEN AnnualNetIncome - AnnualExpense ELSE 0

YearsTimesAnnualSavings ==
    LET annualNetIncome == FAdd(FromInt(ExpectedNetIncome(income.grossIncome)), Num(income.bonus))
        annualExpense   == FMul(Num(income.monthlyExpense), FromInt(12))
    IN  FMul(FromInt(income.years), MathMax0(FSub(annualNetIncome, annualExpense)))

\* both savings computations have returned, with the same value, which is
\* years * max(0, annualNetIncome - annualExpense)
SavingsAgree ==
    /\ Len(yearlyIncome) = income.years
    /\ savings = yearlyIncome[income.years].savings
    /\ savings = YearsTimesAnnualSavings

\* bonus and monthlyExpense are whole numbers
WholeAmounts == income.bonus[2] = 1 /\ income.monthlyExpense[2] = 1

\* C28 as stated: for every gross, bonus, monthlyExpense and integer years >= 1,
\* calculateSavings(gross, bonus, monthlyExpense, years) equals the savings field
\* of the last entry of generateYearlyIncomeData(gross, bonus, monthlyExpense,
\* years), i.e. years * max(0, annualNetIncome - annualExpense).
C28_SavingsAgreeAnyAmounts ==
    {"calculateSavings", "generateYearlyIncomeData"} \subseteq returned => SavingsAgree

\* C28 amended: the same for a bonus and a monthlyExpense that are whole numbers.
C28_SavingsAgreeWholeAmounts ==
    {"calculateSavings", "generateYearlyIncomeData"} \subseteq returned /\ WholeAmounts
        => SavingsAgree

C28_Witness ==
    /\ {"calculateSavings", "generateYearlyIncomeData"} \subseteq returned
    /\ income = [grossIncome |-> <<500, 1>>, bonus |-> <<80, 1>>, monthlyExpense |-> <<17, 1>>,
                 years |-> 3]
    /\ savings = FromInt(828)
    /\ yearlyIncome[3].savings = FromInt(828)

----------------------------------------------------------------------------
(* Properties of the formatters, stated on the decimal literal p/q.         *)

IsDigit(c) == \E d \in 1..10 : Digits[d] = c

DigitValue(c) == (CHOOSE d \in 1..10 : Digits[d] = c) - 1

\* the number the digits of t spell, other characters skipped
RECURSIVE NumberOf(_)
NumberOf(t) ==
    IF t = <<>> THEN 0
    ELSE LET front == SubSeq(t, 1, Len(t) - 1)
         IN  IF IsDigit(t[Len(t)]) THEN 10 * NumberOf(front) + DigitValue(t[Len(t)])
             ELSE NumberOf(front)

\* C17: formatPercent(value) is the value rounded half-up to exactly one decimal
\* place, followed by '%': 5 -> "5.0%", 3.5 -> "3.5%", 0 -> "0.0%",
\* 5.123 -> "5.1%", 5.678 -> "5.7%".
C17_PercentOneDecimal ==
    percentText # <<>> =>
        LET n == Len(percentText)
        IN  /\ n >= 4
            /\ percentText[n] = "%"
            /\ percentText[n - 2] = "."
            /\ \A i \in 1..n : i \notin {n - 2, n} => IsDigit(percentText[i])
            /\ n > 4 => percentText[1] # "0"
            /\ NumberOf(percentText) = RoundDiv(10 * amount[1], amount[2])
            /\ amount = <<5, 1>> => percentText = <<"5", ".", "0", "%">>
            /\ amount = <<35, 10>> => percentText = <<"3", ".", "5", "%">>
            /\ amount = <<0, 1>> => percentText = <<"0", ".", "0", "%">>
            /\ amount = <<5123, 1000>> => percentText = <<"5", ".", "1", "%">>
            /\ amount = <<5678, 1000>> => percentText = <<"5", ".", "7", "%">>

C17_Witness ==
    /\ amount = <<1, 4>>
    /\ percentText = <<"0", ".", "3", "%">>

\* text is the sign yen, then the amount rounded to the nearest whole unit in
\* groups of three digits separated by commas, with no fractional digits
CurrencyFormatted(text, yen) ==
    /\ Len(text) >= 2
    /\ text[1] = yen
    /\ LET body == Tail(text)
           n    == Len(body)
       IN  /\ \A i \in 1..n : IF (n - i + 1) % 4 = 0 THEN body[i] = ","
                                                     ELSE IsDigit(body[i])
           /\ n > 1 => body[1] # "0"
           /\ NumberOf(body) = RoundDiv(amount[1], amount[2])

\* the halfwidth yen sign
HalfwidthYen == "U+00A5"

\* C18 as stated: formatCurrency(amount) is the amount rounded to the nearest whole
\* unit with a leading yen symbol U+00A5, thousands separators and no fractional
\* digits: 1000000 -> U+00A5 1,000,000; 0 -> U+00A5 0; 1234.56 -> U+00A5 1,235.
C18_HalfwidthYen ==
    currencyText # <<>> =>
        /\ CurrencyFormatted(currencyText, HalfwidthYen)
        /\ amount = <<1000000, 1>> =>
              currencyText = <<HalfwidthYen, "1", ",", "0", "0", "0", ",", "0", "0", "0">>
        /\ amount = <<0, 1>> => currencyText = <<HalfwidthYen, "0">>
        /\ amount = <<123456, 100>> => currencyText = <<HalfwidthYen, "1", ",", "2", "3", "5">>

\* C18 amended: the same with the fullwidth yen sign U+FFE5 of the ja-JP format:
\* 1000000 -> U+FFE5 1,000,000; 0 -> U+FFE5 0; 1234.56 -> U+FFE5 1,235.
C18_FullwidthYen ==
    currencyText # <<>> =>
        /\ CurrencyFormatted(currencyText, FullwidthYen)
        /\ amount = <<1000000, 1>> =>
              currencyText = <<FullwidthYen, "1", ",", "0", "0", "0", ",", "0", "0", "0">>
        /\ amount = <<0, 1>> => currencyText = <<FullwidthYen, "0">>
        /\ amount = <<123456, 100>> => currencyText = <<FullwidthYen, "1", ",", "2", "3", "5">>

C18_Witness ==
    /\ amount = <<9999996, 10>>
    /\ currencyText = <<FullwidthYen, "1", ",", "0", "0", "0", ",", "0", "0", "0">>

----------------------------------------------------------------------------
(* Properties of the income screen.                                         *)

\* settings of an earlier session were stored when the screen was mounted, and
\* the user has not moved a slider since
EarlierSettingsUntouched ==
    session # Null /\ session.persisted # Null /\ session.slides = 0

\* C29: settings persisted by an earlier session survive a restart: in every
\* ordering of the mount-time save effect and load effect and of the storage
\* operations they issue, the value loadSettings reads is the previously
\* persisted one, and the default values written by the initial save never
\* replace the stored settings before they have been loaded into state.
C29_PersistedSettingsSurvive ==
    EarlierSettingsUntouched =>
        /\ session.read # Null => session.read.saved = session.persisted
        /\ ~session.loaded => storage = session.persisted

\* C30: saving and then loading settings is a round trip for every value the
\* sliders can produce: after {monthlySalary, monthlyExpense, bonus, years} are
\* written to storage and read back by loadSettings, the screen state equals the
\* saved values, bonus = 0 (the minimum of the bonus slider) included.
C30_SaveLoadRoundTrip ==
    session # Null /\ session.loaded =>
        LET saved == JSONParse(session.read.saved)
        IN  /\ screen.monthlySalary = saved.monthlySalary
            /\ screen.monthlyExpense = saved.monthlyExpense
            /\ screen.bonus = saved.bonus
            /\ screen.years = saved.years

====
